---- MODULE Spec2Model ----
(***************************************************************************)
(* A model of src/utils.rs of LanguageClient-neovim:                       *)
(*   - apply_TextEdits          (position-addressed edits on a line buffer)*)
(*   - get_command_update_signs (sign overlay reconciliation)              *)
(*                                                                         *)
(* Text is a sequence of one-character strings; every character of the    *)
(* model is one byte, so byte offsets (String::len, &text[a..b]) and       *)
(* character offsets coincide.  A panic of the Rust code (slice index out  *)
(* of range) is the terminal control state "panic"; an Err(..) return is   *)
(* the terminal control state "err".                                       *)
(***************************************************************************)
EXTENDS Integers, Sequences, FiniteSets, TLC

VARIABLES
    lines,            \* apply_TextEdits: the argument `lines`
    edits,            \* apply_TextEdits: the argument `edits`
    edits_by_index,   \* apply_TextEdits: the local vector of (start, end, new_text)
    text,             \* apply_TextEdits: the local `text`
    pc,               \* apply_TextEdits: control state
    result,           \* apply_TextEdits: the Vec<String> returned in Ok(..)
    signs_prev,       \* get_command_update_signs: argument
    signs,            \* get_command_update_signs: argument
    comps,            \* get_command_update_signs: what is left of diff::slice's result
    cmd,              \* get_command_update_signs: the local `cmd`
    spc               \* get_command_update_signs: control state

vars == <<lines, edits, edits_by_index, text, pc, result,
          signs_prev, signs, comps, cmd, spc>>

editVars == <<lines, edits, edits_by_index, text, pc, result>>
signVars == <<signs_prev, signs, comps, cmd, spc>>

----------------------------------------------------------------------------
(* Bounds of the model *)

MaxLines == 2      \* buffers have at most this many lines
MaxLineLen == 2    \* lines have at most this many characters
MaxText == 3       \* multi-edit specification: joined buffers have at most this many characters
MaxEdits == 2      \* multi-edit specification: at most this many edits
MaxSigns == 3      \* sign sequences have at most this many signs
MaxSignLine == 1   \* signs sit on lines 1..MaxSignLine

----------------------------------------------------------------------------
(* Strings *)

NL == "\n"

\* Distinct letters: the n-th letter of an input buffer is Alphabet[n], so
\* every splice position shows in the result.  apply_TextEdits inspects no
\* character but the newline.
Alphabet == <<"a", "b", "c", "d", "e", "f", "g", "h", "i", "j", "k", "l",
              "m", "n", "o", "p", "q", "r", "s", "t", "u", "v", "w">>

RECURSIVE SumTo(_, _)
SumTo(lens, n) == IF n = 0 THEN 0 ELSE SumTo(lens, n - 1) + lens[n]

\* The buffer whose i-th line has lens[i] letters
BufferOf(lens) ==
    [i \in 1..Len(lens) |-> [j \in 1..lens[i] |-> Alphabet[SumTo(lens, i - 1) + j]]]

\* Buffers of at most MaxLines lines of at most MaxLineLen characters
Buffers == {BufferOf(lens) : lens \in UNION {[1..k -> 0..MaxLineLen] : k \in 0..MaxLines}}

\* Buffers whose joined text has at most MaxText characters
TextBuffers ==
    {BufferOf(lens) : lens \in
        {l \in UNION {[1..k -> 0..MaxText] : k \in 0..(MaxText + 1)} :
            SumTo(l, Len(l)) + Len(l) <= MaxText + 1}}

\* &s[from..] and &s[..to] on 0-based byte offsets (callers check the bounds)
SliceFrom(s, from) == SubSeq(s, from + 1, Len(s))
SliceTo(s, to) == SubSeq(s, 1, to)

\* lines.join("\n")
RECURSIVE join(_)
join(ls) ==
    IF ls = <<>> THEN <<>>
    ELSE IF Len(ls) = 1 THEN ls[1]
    ELSE ls[1] \o <<NL>> \o join(Tail(ls))

\* text.split('\n').map(|l| l.to_owned()).collect()
RECURSIVE split(_)
split(t) ==
    LET hits == {i \in 1..Len(t) : t[i] = NL}
    IN  IF hits = {} THEN <<t>>
        ELSE LET i == CHOOSE h \in hits : \A g \in hits : h <= g
             IN  <<SubSeq(t, 1, i - 1)>> \o split(SubSeq(t, i + 1, Len(t)))

----------------------------------------------------------------------------
(* apply_TextEdits *)

Position(l, c) == [line |-> l, character |-> c]
Range(s, e) == [start |-> s, end |-> e]
TextEdit(r, t) == [range |-> r, new_text |-> t]

\* ToPrimitive::to_usize on a u64 coordinate: None only when the value does
\* not fit usize; every u64 fits on a 64-bit target.
to_usize(v) == [some |-> v \in Nat, val |-> v]

\* fold_len with the line ending left out of the sum
RECURSIVE fold_len_no_ending(_, _)
fold_len_no_ending(ls, n) ==
    IF n = 0 THEN 0 ELSE fold_len_no_ending(ls, n - 1) + Len(ls[n])

\* lines[..n].iter().map(|l| l.len()).fold(0, |acc, l| acc + l + 1)
RECURSIVE fold_len(_, _)
fold_len(ls, n) ==
    IF n = 0 THEN 0 ELSE fold_len(ls, n - 1) + Len(ls[n]) + 1

\* One iteration of `for edit in edits` (lines 124-140).
ComputeOffset ==
    /\ pc = "offsets"
    /\ Len(edits_by_index) < Len(edits)
    /\ LET edit == edits[Len(edits_by_index) + 1]
           start_line == to_usize(edit.range.start.line)
           start_character == to_usize(edit.range.start.character)
           end_line == to_usize(edit.range.end.line)
           end_character == to_usize(edit.range.end.character)
       IN  IF ~(start_line.some /\ start_character.some
                /\ end_line.some /\ end_character.some)
           THEN /\ pc' = "err"
                /\ UNCHANGED edits_by_index
           ELSE IF start_line.val > Len(lines) \/ end_line.val > Len(lines)
           THEN /\ pc' = "panic"     \* lines[..n] with n > lines.len()
                /\ UNCHANGED edits_by_index
           ELSE /\ edits_by_index' = Append(edits_by_index,
                      [start |-> fold_len(lines, start_line.val) + start_character.val,
                       end |-> fold_len(lines, end_line.val) + end_character.val,
                       new_text |-> edit.new_text])
                /\ pc' = pc
    /\ UNCHANGED <<lines, edits, text, result>>
    /\ UNCHANGED signVars

\* let mut text = lines.join("\n");  (line 142)
Join ==
    /\ pc = "offsets"
    /\ Len(edits_by_index) = Len(edits)
    /\ text' = join(lines)
    /\ pc' = "splice"
    /\ UNCHANGED <<lines, edits, edits_by_index, result>>
    /\ UNCHANGED signVars

\* splice that keeps the replaced text: &text[start..] for &text[end..]
splice_keep(t, e) == SliceTo(t, e.start) \o e.new_text \o SliceFrom(t, e.start)

\* String::new() + &text[..start] + new_text + &text[end..]
splice(t, e) == SliceTo(t, e.start) \o e.new_text \o SliceFrom(t, e.end)

\* One iteration of `for (start, end, new_text) in edits_by_index` (143-145).
Splice ==
    /\ pc = "splice"
    /\ edits_by_index # <<>>
    /\ LET e == Head(edits_by_index)
       IN  IF e.start > Len(text) \/ e.end > Len(text)
           THEN /\ pc' = "panic"     \* &text[..start] or &text[end..] out of range
                /\ UNCHANGED <<text, edits_by_index>>
           ELSE /\ text' = splice(text, e)
                /\ edits_by_index' = Tail(edits_by_index)
                /\ pc' = pc
    /\ UNCHANGED <<lines, edits, result>>
    /\ UNCHANGED signVars

\* Ok(text.split('\n').map(|l| l.to_owned()).collect())  (line 147)
Split ==
    /\ pc = "splice"
    /\ edits_by_index = <<>>
    /\ result' = split(text)
    /\ pc' = "done"
    /\ UNCHANGED <<lines, edits, edits_by_index, text>>
    /\ UNCHANGED signVars

----------------------------------------------------------------------------
(* Inputs of apply_TextEdits *)

\* Coordinates an edit may carry: lines 0..MaxLines and characters
\* 0..MaxLineLen+1 reach past every buffer of the model.
Positions == {Position(l, c) : l \in 0..MaxLines, c \in 0..(MaxLineLen + 1)}

\* A position addresses the buffer: line index below the number of lines,
\* character index at most the length of that line.
InBounds(ls, p) == p.line < Len(ls) /\ p.character <= Len(ls[p.line + 1])

\* Document order of two positions
PosLeq(p, q) == p.line < q.line \/ (p.line = q.line /\ p.character <= q.character)

\* Offset of an in-bounds position in the joined text: the characters of
\* the lines above it, one separator for each of them, and its column
OffsetOf(ls, p) == SumTo([i \in 1..Len(ls) |-> Len(ls[i])], p.line) + p.line + p.character

\* The text an in-bounds range addresses in the joined buffer
SpanOf(ls, r) == SubSeq(join(ls), OffsetOf(ls, r.start) + 1, OffsetOf(ls, r.end))

RangeOk(ls, r) == InBounds(ls, r.start) /\ InBounds(ls, r.end) /\ PosLeq(r.start, r.end)

NewTexts == {<<>>, <<"x">>, <<NL>>, <<"x", NL, "y">>}

\* Replacement texts offered for range r of buffer ls: the fixed ones and,
\* for a well-formed range, the text the range addresses.
TextsFor(ls, r) == NewTexts \cup (IF RangeOk(ls, r) THEN {SpanOf(ls, r)} ELSE {})

SingleEdits(ls) ==
    {TextEdit(r, t) : <<r, t>> \in
        UNION {{<<Range(s, e), t>> : t \in TextsFor(ls, Range(s, e))} : <<s, e>> \in Positions \X Positions}}

EditTexts == {<<>>, <<"x", "y">>}

\* The positions that address buffer ls
PositionsOf(ls) == UNION {{Position(l, c) : c \in 0..Len(ls[l + 1])} : l \in 0..(Len(ls) - 1)}

\* Well-formed edits of buffer ls: in bounds, start not after end
OkEdits(ls) ==
    {TextEdit(Range(q[1], q[2]), q[3]) : q \in
        {q \in PositionsOf(ls) \X PositionsOf(ls) \X EditTexts : PosLeq(q[1], q[2])}}

SignsIdle ==
    /\ signs_prev = <<>>
    /\ signs = <<>>
    /\ comps = <<>>
    /\ cmd = <<>>
    /\ spc = "idle"

EditsStart ==
    /\ edits_by_index = <<>>
    /\ text = <<>>
    /\ result = <<>>
    /\ pc = "offsets"

\* apply_TextEdits called with no edit or one edit of any coordinates
InitTextEdit ==
    /\ lines \in Buffers
    /\ edits \in {<<>>} \cup {<<e>> : e \in SingleEdits(lines)}
    /\ EditsStart
    /\ SignsIdle

\* apply_TextEdits called with up to MaxEdits well-formed edits in any order
InitTextEdits ==
    /\ lines \in TextBuffers
    /\ edits \in UNION {[1..k -> OkEdits(lines)] : k \in 0..MaxEdits}
    /\ EditsStart
    /\ SignsIdle

NextEdits == ComputeOffset \/ Join \/ Splice \/ Split

SpecTextEdit == InitTextEdit /\ [][NextEdits]_vars

SpecTextEdits == InitTextEdits /\ [][NextEdits]_vars

----------------------------------------------------------------------------
(* get_command_update_signs *)

\* DiagnosticSeverity as a number
SeverityCode == [Error |-> 1, Warning |-> 2, Information |-> 3, Hint |-> 4]

\* Sign::new(line, severity); the id is the one the tests of
\* get_command_add_sign expect (75000, 75024, 75027).
Sign(line, severity) ==
    [id |-> 75000 + (line - 1) * 4 + SeverityCode[severity] - 1,
     line |-> line, severity |-> severity]

\* Equality of signs in the diff: line and severity
SignEq(a, b) == a.line = b.line /\ a.severity = b.severity

\* The file name handed through to the commands
filename == "f"

\* format!(" | execute 'sign place {} line={} name=LanguageClient{:?} file={}'", ..)
get_command_add_sign(sign, file) ==
    [op |-> "place", id |-> sign.id, line |-> sign.line,
     name |-> <<"LanguageClient", sign.severity>>, file |-> file]

\* format!(" | execute 'sign unplace {} file={}'", sign.id, filename)
get_command_delete_sign(sign, file) ==
    [op |-> "unplace", id |-> sign.id, file |-> file]

Reverse(s) == [i \in 1..Len(s) |-> s[Len(s) + 1 - i]]

\* diff::slice, the table: row i of the longest-common-subsequence table
\* (columns 1..Len(right); column 0 and row 0 are 0), filled left to right
\* from the row above
RECURSIVE lcs_row(_, _, _, _, _)
lcs_row(left, right, i, above, acc) ==
    IF Len(acc) = Len(right) THEN acc
    ELSE LET j == Len(acc) + 1
             diag == IF j = 1 THEN 0 ELSE above[j - 1]
             before == IF j = 1 THEN 0 ELSE acc[j - 1]
             cell == IF SignEq(left[i], right[j]) THEN diag + 1
                     ELSE IF above[j] >= before THEN above[j] ELSE before
         IN  lcs_row(left, right, i, above, Append(acc, cell))

\* diff::slice, the table: rows 1..Len(left), filled top to bottom
RECURSIVE lcs_rows(_, _, _)
lcs_rows(left, right, rows) ==
    IF Len(rows) = Len(left) THEN rows
    ELSE LET above == IF rows = <<>> THEN [j \in 1..Len(right) |-> 0]
                      ELSE rows[Len(rows)]
         IN  lcs_rows(left, right,
                      Append(rows, lcs_row(left, right, Len(rows) + 1, above, <<>>)))

\* diff::slice(left, right): the longest-common-subsequence table and the
\* walk back from its last cell; Right is taken before Left before Both,
\* and the walk's output is reversed.
DiffSlice(left, right) ==
    LET n == Len(left)
        m == Len(right)
        rows == lcs_rows(left, right, <<>>)
        table(i, j) == IF i = 0 \/ j = 0 THEN 0 ELSE rows[i][j]
        walk[i \in 0..n, j \in 0..m] ==
            IF j > 0 /\ (i = 0 \/ table(i, j) = table(i, j - 1))
            THEN <<[tag |-> "Right", right |-> right[j]]>> \o walk[i, j - 1]
            ELSE IF i > 0 /\ (j = 0 \/ table(i, j) = table(i - 1, j))
            THEN <<[tag |-> "Left", left |-> left[i]]>> \o walk[i - 1, j]
            ELSE IF i > 0 /\ j > 0
            THEN <<[tag |-> "Both", left |-> left[i], right |-> right[j]]>> \o walk[i - 1, j - 1]
            ELSE <<>>
    IN  Reverse(walk[n, m])

\* append_for with a sign unplaced for Both as well
append_for_both(comp, file) ==
    IF comp.tag = "Left" THEN <<get_command_delete_sign(comp.left, file)>>
    ELSE IF comp.tag = "Right" THEN <<get_command_add_sign(comp.right, file)>>
    ELSE <<get_command_delete_sign(comp.left, file)>>

\* append_for with the arms of Left and Right exchanged
append_for_swapped(comp, file) ==
    IF comp.tag = "Left" THEN <<get_command_add_sign(comp.left, file)>>
    ELSE IF comp.tag = "Right" THEN <<get_command_delete_sign(comp.right, file)>>
    ELSE <<>>

\* The match on one comparison (lines 231-239): what is appended to cmd
append_for(comp, file) ==
    IF comp.tag = "Left" THEN <<get_command_delete_sign(comp.left, file)>>
    ELSE IF comp.tag = "Right" THEN <<get_command_add_sign(comp.right, file)>>
    ELSE <<>>

\* let mut cmd = "echo".to_owned(); and the call of diff::slice (229-230)
Diff ==
    /\ spc = "start"
    /\ cmd' = <<[op |-> "echo"]>>
    /\ comps' = DiffSlice(signs_prev, signs)
    /\ spc' = "loop"
    /\ UNCHANGED <<signs_prev, signs>>
    /\ UNCHANGED editVars

\* One iteration of `for comp in diff::slice(signs_prev, signs)` (230-240)
Comp ==
    /\ spc = "loop"
    /\ comps # <<>>
    /\ cmd' = cmd \o append_for(Head(comps), filename)
    /\ comps' = Tail(comps)
    /\ UNCHANGED <<signs_prev, signs, spc>>
    /\ UNCHANGED editVars

\* cmd  (line 242)
Return ==
    /\ spc = "loop"
    /\ comps = <<>>
    /\ spc' = "done"
    /\ UNCHANGED <<signs_prev, signs, comps, cmd>>
    /\ UNCHANGED editVars

\* The severities the sign inputs are drawn from
SignSeverities == {"Error", "Hint"}

SignSet == {Sign(l, sv) : l \in 1..MaxSignLine, sv \in SignSeverities}

SignSeqs == UNION {[1..k -> SignSet] : k \in 0..MaxSigns}

EditsIdle ==
    /\ lines = <<>>
    /\ edits = <<>>
    /\ edits_by_index = <<>>
    /\ text = <<>>
    /\ result = <<>>
    /\ pc = "idle"

InitSigns ==
    /\ signs_prev \in SignSeqs
    /\ signs \in SignSeqs
    /\ comps = <<>>
    /\ cmd = <<>>
    /\ spc = "start"
    /\ EditsIdle

NextSigns == Diff \/ Comp \/ Return

SpecSigns == InitSigns /\ [][NextSigns]_vars

----------------------------------------------------------------------------
(* Properties of apply_TextEdits *)

Returned == pc \in {"done", "err", "panic"}

\* The offsets of edit e of buffer ls, from the positions alone
Offsets(ls, e) ==
    [start |-> OffsetOf(ls, e.range.start), end |-> OffsetOf(ls, e.range.end),
     new_text |-> e.new_text]

OffsetsOfAll(ls, es) == [i \in 1..Len(es) |-> Offsets(ls, es[i])]

AllRangesOk(ls, es) == \A i \in 1..Len(es) : RangeOk(ls, es[i].range)

\* No two edits overlap as half-open ranges of offsets
NonOverlapping(os) ==
    \A i, j \in 1..Len(os) : i # j => (os[i].end <= os[j].start \/ os[j].end <= os[i].start)

\* os lists the edits from left to right, each ending where the next starts or before
AscendingChain(os) == \A i \in 1..(Len(os) - 1) : os[i].end <= os[i + 1].start

\* os lists the edits from right to left, each starting where the next ends or after
DescendingChain(os) == \A i \in 1..(Len(os) - 1) : os[i + 1].end <= os[i].start

\* Start offsets never increase along os
NonIncreasingStarts(os) == \A i \in 1..(Len(os) - 1) : os[i + 1].start <= os[i].start

\* Simultaneous replacement in t of the ranges of an ascending chain, read
\* off the original text from offset `from` on
RECURSIVE ReplaceFrom(_, _, _)
ReplaceFrom(t, os, from) ==
    IF os = <<>> THEN SubSeq(t, from + 1, Len(t))
    ELSE SubSeq(t, from + 1, os[1].start) \o os[1].new_text
         \o ReplaceFrom(t, Tail(os), os[1].end)

ReplaceAll(t, os) == ReplaceFrom(t, os, 0)

Orderings(n) == {f \in [1..n -> 1..n] : \A i, j \in 1..n : i # j => f[i] # f[j]}

\* Every result of the simultaneous replacement of non-overlapping edits:
\* one for each left-to-right arrangement of them
Replacements(t, os) ==
    {ReplaceAll(t, [i \in 1..Len(os) |-> os[f[i]]]) :
        f \in {g \in Orderings(Len(os)) : AscendingChain([i \in 1..Len(os) |-> os[g[i]]])}}

DistinctStarts(os) == \A i, j \in 1..Len(os) : i # j => os[i].start # os[j].start

\* C1: for in-bounds, pairwise non-overlapping edits (here with pairwise
\* distinct start offsets) supplied in any order, apply_TextEdits returns the
\* buffer of the replacement of every range in the original joined text.
C1_AnyOrderSameBuffer ==
    (Returned /\ AllRangesOk(lines, edits)
        /\ NonOverlapping(OffsetsOfAll(lines, edits))
        /\ DistinctStarts(OffsetsOfAll(lines, edits)))
    => (pc = "done"
        /\ \E r \in Replacements(join(lines), OffsetsOfAll(lines, edits)) : result = split(r))

\* Some position of some edit is out of the buffer's bounds
OutOfBounds(ls, es) ==
    \E i \in 1..Len(es) : ~InBounds(ls, es[i].range.start) \/ ~InBounds(ls, es[i].range.end)

\* C2: when a position of an edit has a line index not below the number of
\* lines or a character index above the length of its line, apply_TextEdits
\* returns an error: it neither panics nor returns a buffer.
C2_OutOfBoundsIsError ==
    (Returned /\ OutOfBounds(lines, edits)) => pc = "err"

\* The one edit of the call replaces (0,0)-(lastLine,0)
WholeBufferEdit ==
    /\ Len(edits) = 1
    /\ Len(lines) > 0
    /\ edits[1].range = Range(Position(0, 0), Position(Len(lines) - 1, 0))

\* C4 as claimed: a single edit (0,0)-(lastLine,0) on a non-empty buffer
\* returns newText split on newline, whatever the last line holds.
C4_FullReplacementAnyLastLine ==
    (Returned /\ WholeBufferEdit) => (pc = "done" /\ result = split(edits[1].new_text))

\* C4 as amended: a single edit (0,0)-(lastLine,0) on a non-empty buffer
\* returns newText followed by the last line's characters, split on newline;
\* it is newText split on newline when the last line is empty.
C4_FullReplacementUpToLastLine ==
    (Returned /\ WholeBufferEdit)
    => /\ pc = "done"
       /\ result = split(edits[1].new_text \o lines[Len(lines)])
       /\ lines[Len(lines)] = <<>> => result = split(edits[1].new_text)

C4_Witness ==
    /\ pc = "done"
    /\ WholeBufferEdit
    /\ Len(lines) = 2
    /\ lines[1] # <<>>
    /\ lines[2] = <<>>
    /\ edits[1].new_text = <<"x", NL, "y">>
    /\ result = <<<<"x">>, <<"y">>>>

\* C5: with no edit, apply_TextEdits returns the buffer it was given, the
\* buffer of zero lines included.
C5_NoEditsRoundTrip ==
    (Returned /\ edits = <<>>) => (pc = "done" /\ result = lines)

\* The one edit of the call replaces a well-formed range by the text it addresses
SelfEdit ==
    /\ Len(edits) = 1
    /\ RangeOk(lines, edits[1].range)
    /\ edits[1].new_text = SpanOf(lines, edits[1].range)

\* C7: a single edit over an in-bounds range, start not after end, whose
\* newText is the text the range addresses returns the original buffer.
C7_SelfEditIsIdentity ==
    (Returned /\ SelfEdit) => (pc = "done" /\ result = lines)

C7_Witness ==
    /\ pc = "done"
    /\ SelfEdit
    /\ Len(lines) = 2
    /\ edits[1].range.start.line = 0
    /\ edits[1].range.end.line = 1
    /\ Len(edits[1].new_text) >= 3
    /\ result = lines

\* C9 as claimed: in-bounds, pairwise non-overlapping edits supplied with
\* non-increasing start offsets are spliced into the simultaneous
\* replacement of their ranges in the original joined text.
C9_NonIncreasingStartsSuffice ==
    (Returned /\ AllRangesOk(lines, edits)
        /\ NonOverlapping(OffsetsOfAll(lines, edits))
        /\ NonIncreasingStarts(OffsetsOfAll(lines, edits)))
    => (pc = "done"
        /\ \E r \in Replacements(join(lines), OffsetsOfAll(lines, edits)) : result = split(r))

\* C9 as amended: when every edit ends at or before the start of each edit
\* supplied before it, every splice finds its offsets inside the text, the
\* text up to the end of the next edit is still the original text, and the
\* result is the simultaneous replacement of the ranges in the original
\* joined text.
C9_BottomToTopSplices ==
    (pc # "offsets" /\ AllRangesOk(lines, edits)
        /\ DescendingChain(OffsetsOfAll(lines, edits)))
    => /\ pc \notin {"err", "panic"}
       /\ (pc = "splice" /\ edits_by_index # <<>>)
            => /\ Head(edits_by_index).end <= Len(text)
               /\ SliceTo(text, Head(edits_by_index).end)
                    = SliceTo(join(lines), Head(edits_by_index).end)
       /\ pc = "done"
            => result = split(ReplaceAll(join(lines), Reverse(OffsetsOfAll(lines, edits))))

C9_Witness ==
    /\ pc = "done"
    /\ Len(edits) = 2
    /\ AllRangesOk(lines, edits)
    /\ DescendingChain(OffsetsOfAll(lines, edits))
    /\ edits[1].new_text = <<>>
    /\ edits[2].new_text = <<"x", "y">>
    /\ Offsets(lines, edits[1]).start < Offsets(lines, edits[1]).end
    /\ Offsets(lines, edits[2]).start < Offsets(lines, edits[2]).end
    /\ edits[2].range.end.line < edits[1].range.start.line

----------------------------------------------------------------------------
(* Properties of get_command_update_signs *)

\* The commands after the "echo" prefix
Batch == SubSeq(cmd, 2, Len(cmd))

IsRemove(c) == c.op = "unplace"
IsAdd(c) == c.op = "place"

\* Command c is the remove command of sign sg / the add command of sign sg
RemoveOf(c, sg) == IsRemove(c) /\ c.id = sg.id /\ c.file = filename
AddOf(c, sg) ==
    /\ IsAdd(c)
    /\ c.id = sg.id
    /\ c.line = sg.line
    /\ c.name = <<"LanguageClient", sg.severity>>
    /\ c.file = filename

\* Sign sg occurs in sequence sq
Occurs(sg, sq) == \E i \in 1..Len(sq) : SignEq(sq[i], sg)

Count(sg, sq) == Cardinality({i \in 1..Len(sq) : SignEq(sq[i], sg)})

Removals(sg) == Cardinality({k \in 1..Len(Batch) : RemoveOf(Batch[k], sg)})
Additions(sg) == Cardinality({k \in 1..Len(Batch) : AddOf(Batch[k], sg)})

\* The elements of sq at the indices in ix, in order
Pick(sq, ix) ==
    [k \in 1..Cardinality(ix) |->
        sq[CHOOSE i \in ix : Cardinality({j \in ix : j <= i}) = k]]

SameSigns(a, b) == Len(a) = Len(b) /\ \A k \in 1..Len(a) : SignEq(a[k], b[k])

\* C3 as claimed: a remove command only for signs present only in previous,
\* an add command only for signs present only in current, for each of them,
\* and no command for a sign that occurs in both sequences.
C3_NoCommandForSharedSigns ==
    spc = "done"
    => /\ \A k \in 1..Len(Batch) :
            \/ \E i \in 1..Len(signs_prev) :
                  RemoveOf(Batch[k], signs_prev[i]) /\ ~Occurs(signs_prev[i], signs)
            \/ \E j \in 1..Len(signs) :
                  AddOf(Batch[k], signs[j]) /\ ~Occurs(signs[j], signs_prev)
       /\ \A i \in 1..Len(signs_prev) :
            ~Occurs(signs_prev[i], signs) => Removals(signs_prev[i]) > 0
       /\ \A j \in 1..Len(signs) :
            ~Occurs(signs[j], signs_prev) => Additions(signs[j]) > 0

\* The signs of sq that also occur in other, in order
Shared(sq, other) == SelectSeq(sq, LAMBDA sg : Occurs(sg, other))

\* C3 as amended: every command removes a sign of previous or adds a sign
\* of current; each occurrence of a sign present only in previous is removed
\* and each occurrence of a sign present only in current is added; for every
\* sign, removals minus additions is its count in previous minus its count in
\* current; and when the shared signs appear in the same order and
\* multiplicity in both sequences, no command carries a shared sign.
C3_CommandsForUnmatchedSigns ==
    spc = "done"
    => /\ \A k \in 1..Len(Batch) :
            \/ \E i \in 1..Len(signs_prev) : RemoveOf(Batch[k], signs_prev[i])
            \/ \E j \in 1..Len(signs) : AddOf(Batch[k], signs[j])
       /\ \A sg \in SignSet :
            /\ Removals(sg) - Additions(sg) = Count(sg, signs_prev) - Count(sg, signs)
            /\ ~Occurs(sg, signs) => Removals(sg) = Count(sg, signs_prev)
            /\ ~Occurs(sg, signs_prev) => Additions(sg) = Count(sg, signs)
       /\ SameSigns(Shared(signs_prev, signs), Shared(signs, signs_prev))
            => \A sg \in SignSet :
                 (Occurs(sg, signs_prev) /\ Occurs(sg, signs))
                 => (Removals(sg) = 0 /\ Additions(sg) = 0)

C3_Witness ==
    /\ spc = "done"
    /\ Len(signs_prev) = 3
    /\ Len(signs) = 2
    /\ \E sg \in SignSet :
         /\ Count(sg, signs_prev) = 1
         /\ Count(sg, signs) = 1
         /\ Removals(sg) = 1
         /\ Additions(sg) = 1

\* The length of a longest common subsequence, by enumeration
LcsLength(a, b) ==
    LET common == {Cardinality(ia) : ia \in
                     {x \in SUBSET (1..Len(a)) :
                        \E ib \in SUBSET (1..Len(b)) :
                           /\ Cardinality(ib) = Cardinality(x)
                           /\ SameSigns(Pick(a, x), Pick(b, ib))}}
    IN  CHOOSE k \in common : \A h \in common : h <= k

\* C6: the batch has |previous| + |current| - 2*L commands, L the length of
\* a longest common subsequence of previous and current.
C6_BatchIsMinimal ==
    spc = "done"
    => Len(Batch) = Len(signs_prev) + Len(signs) - 2 * LcsLength(signs_prev, signs)

C6_Witness ==
    /\ spc = "done"
    /\ Len(signs_prev) = 3
    /\ Len(signs) = 3
    /\ LcsLength(signs_prev, signs) = 2
    /\ Len(Batch) = 2

\* C8: for equal previous and current, repeated signs included, the result
\* is the bare "echo" prefix.
C8_NoChangeNoCommand ==
    (spc = "done" /\ signs_prev = signs) => cmd = <<[op |-> "echo"]>>

C8_Witness ==
    /\ spc = "done"
    /\ signs_prev = signs
    /\ Len(signs) = 3
    /\ signs[1] = signs[3]
    /\ signs[1] # signs[2]
    /\ Len(cmd) = 1

\* The number of indices up to i that are not in ix
KeptBefore(i, ix) == Cardinality({x \in 1..i : x \notin ix})

\* The k-th smallest element of ix
Nth(ix, k) == CHOOSE i \in ix : Cardinality({j \in ix : j <= i}) = k

\* The batch is the patch that deletes the occurrences rm of previous and
\* inserts the occurrences ad of current: the removes are previous at rm in
\* order, the adds are current at ad in order, what is left of previous is
\* what is left of current, and the commands come in the order of the
\* merged sequence (never after a command that sits behind more kept signs).
IsPatch(rm, ad) ==
    LET rems == {k \in 1..Len(Batch) : IsRemove(Batch[k])}
        adds == {k \in 1..Len(Batch) : IsAdd(Batch[k])}
        place(k) == IF k \in rems
                    THEN KeptBefore(Nth(rm, Cardinality({h \in rems : h <= k})), rm)
                    ELSE KeptBefore(Nth(ad, Cardinality({h \in adds : h <= k})), ad)
    IN  /\ rems \cup adds = 1..Len(Batch)
        /\ Cardinality(rems) = Cardinality(rm)
        /\ Cardinality(adds) = Cardinality(ad)
        /\ \A k \in rems :
             RemoveOf(Batch[k], signs_prev[Nth(rm, Cardinality({h \in rems : h <= k}))])
        /\ \A k \in adds :
             AddOf(Batch[k], signs[Nth(ad, Cardinality({h \in adds : h <= k}))])
        /\ SameSigns(Pick(signs_prev, (1..Len(signs_prev)) \ rm),
                     Pick(signs, (1..Len(signs)) \ ad))
        /\ \A k, h \in 1..Len(Batch) : k < h => place(k) <= place(h)

NumRemoves == Cardinality({k \in 1..Len(Batch) : IsRemove(Batch[k])})
NumAdds == Cardinality({k \in 1..Len(Batch) : IsAdd(Batch[k])})

\* C10: the removes in emission order are a subsequence of previous, the
\* adds in emission order are a subsequence of current, and deleting the
\* removed occurrences from previous and inserting the added ones where the
\* walk meets them yields current.
C10_OrderPreservingPatch ==
    spc = "done"
    => \E rm \in {x \in SUBSET (1..Len(signs_prev)) : Cardinality(x) = NumRemoves} :
          \E ad \in {x \in SUBSET (1..Len(signs)) : Cardinality(x) = NumAdds} :
             IsPatch(rm, ad)

C10_Witness ==
    /\ spc = "done"
    /\ Len(signs_prev) = 3
    /\ Len(signs) = 3
    /\ Len(Batch) = 4
    /\ IsRemove(Batch[1])
    /\ IsAdd(Batch[4])
    /\ \E rm \in SUBSET (1..Len(signs_prev)) : \E ad \in SUBSET (1..Len(signs)) :
          IsPatch(rm, ad)

====
